---- MODULE Spec2Model ----
(***************************************************************************)
(* Model of src/TL.py: the transform (dimension building, fuzzy name       *)
(* resolution, date dimension) and the sequential load of the star schema. *)
(*                                                                         *)
(* Strings are sequences of character codes; code 0 is the space.          *)
(* A missing cell (NaN / None) of a name column is the cell NaN.           *)
(* A similarity score is the exact rational 100 * n / d, kept as <<n, d>>, *)
(* so that ties and the threshold are decided as the floats decide them.   *)
(***************************************************************************)
EXTENDS Integers, Sequences, FiniteSets, TLC

VARIABLES
    \* the five extracted tables, each a sequence of rows
    gps_match, gps_training, wyscout_outfield, wyscout_goalkeeper, wyscout_matches,
    pc,      \* where the run is: "start", "transformed", "loaded", "failed"
    out,     \* what transform_data returned, or the exception that left it
    prev,    \* what the run before returned, on the same tables
    db,      \* per table of the database: "old", or "replaced" by this run
    k,       \* the to_sql calls of load_data_to_db done so far
    runner,  \* "standalone" (run_etl_standalone) or "airflow" (the DAG)
    tries,   \* the retries Airflow has used
    \* one call of map_name_to_id: its name, its dimension table, its result
    query, dim, result, rpc

tables == <<gps_match, gps_training, wyscout_outfield, wyscout_goalkeeper,
            wyscout_matches>>

vars == <<tables, pc, out, prev, db, k, runner, tries, query, dim, result, rpc>>

(* ------------------------------ bounds -------------------------------- *)
MaxCand == 3

MaxRows == 2

MaxDateRows == 3

MaxLoadRows == 1

(* ------------------------------ strings ------------------------------- *)
\* the missing cell of a name column: no string over the character codes
NaN == << -1 >>

\* the None of a key column: no key, keys start at 1
None == 0

threshold == 85

isna(x) == x = NaN

\* "a", "a b", "b a", "abc", "abcd", "bcd", "a abc", "a abcd"
Names ==
    { <<1>>, <<1, 0, 2>>, <<2, 0, 1>>, <<1, 2, 3>>, <<1, 2, 3, 4>>, <<2, 3, 4>>,
      <<1, 0, 1, 2, 3>>, <<1, 0, 1, 2, 3, 4>> }

Max2(a, b) == IF a >= b THEN a ELSE b

\* str.split(): the set of maximal runs of non-space characters
tokens(s) ==
    { SubSeq(s, p[1], p[2]) : p \in
        { q \in (1..Len(s)) \X (1..Len(s)) :
            /\ q[1] <= q[2]
            /\ \A c \in q[1]..q[2] : s[c] # 0
            /\ (q[1] = 1 \/ s[q[1] - 1] = 0)
            /\ (q[2] = Len(s) \/ s[q[2] + 1] = 0) } }

\* str < str: lexicographic order on character codes
RECURSIVE LexLess(_, _)
LexLess(a, b) ==
    IF Len(b) = 0 THEN FALSE
    ELSE IF Len(a) = 0 THEN TRUE
    ELSE IF a[1] # b[1] THEN a[1] < b[1]
    ELSE LexLess(Tail(a), Tail(b))

\* " ".join(sorted(S))
RECURSIVE sorted_join(_)
sorted_join(S) ==
    IF S = {} THEN <<>>
    ELSE LET first == CHOOSE t \in S : \A u \in S \ {t} : LexLess(t, u)
             rest  == S \ {first}
         IN  IF rest = {} THEN first ELSE first \o <<0>> \o sorted_join(rest)

\* length of a longest common subsequence
RECURSIVE lcs_len(_, _)
lcs_len(a, b) ==
    IF Len(a) = 0 \/ Len(b) = 0 THEN 0
    ELSE IF a[1] = b[1] THEN 1 + lcs_len(Tail(a), Tail(b))
    ELSE Max2(lcs_len(Tail(a), b), lcs_len(a, Tail(b)))

\* Indel distance: insertions and deletions only
indel_distance(a, b) == Len(a) + Len(b) - 2 * lcs_len(a, b)

(* ------------------------------ scores -------------------------------- *)
Zero == <<0, 1>>

Hundred == <<1, 1>>

ScoreGE(x, y) == x[1] * y[2] >= y[1] * x[2]

ScoreGT(x, y) == x[1] * y[2] > y[1] * x[2]

ScoreEQ(x, y) == x[1] * y[2] = y[1] * x[2]

ScoreMax(x, y) == IF ScoreGE(x, y) THEN x ELSE y

\* 100 - 100 * dist / lensum, and 0 below the cutoff
norm_distance(dist, lensum, score_cutoff) ==
    LET score == IF lensum = 0 THEN Hundred ELSE <<lensum - dist, lensum>>
    IN  IF ScoreGE(score, score_cutoff) THEN score ELSE Zero

\* token_set_ratio once the tokens are split off: sect_len is the length of
\* the joined common tokens, ab and ba the joined tokens only one side has
ratio_of_parts(sect_len, sep, ab, ba, score_cutoff) ==
    IF sect_len = 0
    THEN norm_distance(indel_distance(ab, ba), Len(ab) + Len(ba), score_cutoff)
    ELSE ScoreMax(
            norm_distance(indel_distance(ab, ba),
                          (sect_len + sep + Len(ab)) + (sect_len + sep + Len(ba)),
                          score_cutoff),
            ScoreMax(
                norm_distance(sep + Len(ab), sect_len + (sect_len + sep + Len(ab)),
                              score_cutoff),
                norm_distance(sep + Len(ba), sect_len + (sect_len + sep + Len(ba)),
                              score_cutoff)))

ratio_of_sets(intersect, diff_ab, diff_ba, score_cutoff) ==
    IF intersect # {} /\ (diff_ab = {} \/ diff_ba = {}) THEN Hundred
    ELSE ratio_of_parts(Len(sorted_join(intersect)),
                        IF intersect # {} THEN 1 ELSE 0,
                        sorted_join(diff_ab), sorted_join(diff_ba), score_cutoff)

ratio_of_tokens(tokens_a, tokens_b, score_cutoff) ==
    IF tokens_a = {} \/ tokens_b = {} THEN Zero
    ELSE ratio_of_sets(tokens_a \cap tokens_b, tokens_a \ tokens_b,
                       tokens_b \ tokens_a, score_cutoff)

\* rapidfuzz.fuzz.token_set_ratio(s1, s2, score_cutoff=...)
token_set_ratio(s1, s2, score_cutoff) ==
    IF isna(s1) \/ isna(s2) THEN Zero
    ELSE ratio_of_tokens(tokens(s1), tokens(s2), score_cutoff)

(* ------------------------------ resolver ------------------------------ *)
\* process.extractOne found no choice at all: it returns None
NoResult == [index |-> 0, score |-> Zero]

\* a faulty variant: the last of the best-scored choices is kept
keep_last(best, i, score) ==
    IF best.index = 0 \/ ScoreGE(score, best.score)
    THEN [index |-> i, score |-> score] ELSE best

\* a choice replaces the result only with a strictly greater score
keep_best(best, i, score) ==
    IF ScoreGE(score, best.score) /\ (best.index = 0 \/ ScoreGT(score, best.score))
    THEN [index |-> i, score |-> score] ELSE best

\* the scan of process.extractOne from choice i on; a score of 100 ends it
RECURSIVE extractOneFrom(_, _, _, _)
extractOneFrom(name, choices, i, best) ==
    IF i > Len(choices) THEN best
    ELSE IF ScoreEQ(token_set_ratio(name, choices[i], best.score), Hundred)
         THEN keep_best(best, i, Hundred)
    ELSE extractOneFrom(name, choices, i + 1,
             keep_best(best, i, token_set_ratio(name, choices[i], best.score)))

extractOne(name, choices) == extractOneFrom(name, choices, 1, NoResult)

\* match if score >= threshold else None
accept(r, choices) ==
    IF r.index = 0 THEN [raised |-> TRUE, match |-> NaN]
    ELSE IF 100 * r.score[1] >= threshold * r.score[2]
         THEN [raised |-> FALSE, match |-> choices[r.index]]
    ELSE [raised |-> FALSE, match |-> NaN]

\* fuzzy_match: unpacking the None of an empty choice list raises TypeError
fuzzy_match(name, choices) == accept(extractOne(name, choices), choices)

tolist(dim_df) == [i \in 1..Len(dim_df) |-> dim_df[i].name]

\* dim_df.loc[dim_df[name_col] == matched, id_col].values[0]
loc_id(dim_df, matched) ==
    dim_df[CHOOSE i \in 1..Len(dim_df) :
              /\ dim_df[i].name = matched
              /\ \A j \in 1..(i - 1) : dim_df[j].name # matched].id

\* if matched: return the key of its row
id_of_match(m, dim_df) ==
    IF m.raised THEN [raised |-> TRUE, id |-> None]
    ELSE IF ~isna(m.match) /\ Len(m.match) > 0
         THEN [raised |-> FALSE, id |-> loc_id(dim_df, m.match)]
    ELSE [raised |-> FALSE, id |-> None]

map_name_to_id(name, dim_df) ==
    IF isna(name) THEN [raised |-> FALSE, id |-> None]
    ELSE id_of_match(fuzzy_match(name, tolist(dim_df)), dim_df)

(* ------------------------------- dates -------------------------------- *)
\* pd.NaT: what errors='coerce' makes of a date that does not parse
NaT == -1

leap(y) == (y % 4 = 0 /\ y % 100 # 0) \/ y % 400 = 0

days_in_month(y, m) ==
    IF m = 2 THEN (IF leap(y) THEN 29 ELSE 28)
    ELSE IF m \in {4, 6, 9, 11} THEN 30 ELSE 31

day_of_year(mp, d) == (153 * mp + 2) \div 5 + d - 1

day_of_era(yoe, doy) == yoe * 365 + yoe \div 4 - yoe \div 100 + doy

shifted_year(y, m) == IF m <= 2 THEN y - 1 ELSE y

\* the day number (days since 1970-01-01) of a calendar date
days_from_civil(y, m, d) ==
    (shifted_year(y, m) \div 400) * 146097
        + day_of_era(shifted_year(y, m) % 400,
                     day_of_year(IF m > 2 THEN m - 3 ELSE m + 9, d))
        - 719468

year_of_era(doe) ==
    (doe - doe \div 1460 + doe \div 36524 - doe \div 146096) \div 365

civil_of_mp(y, mp, doy) ==
    <<y + (IF mp < 10 THEN 0 ELSE 1),
      IF mp < 10 THEN mp + 3 ELSE mp - 9,
      doy - (153 * mp + 2) \div 5 + 1>>

civil_of_doy(y, doy) == civil_of_mp(y, (5 * doy + 2) \div 153, doy)

civil_of_yoe(era, doe, yoe) ==
    civil_of_doy(yoe + era * 400, doe - (365 * yoe + yoe \div 4 - yoe \div 100))

civil_of_doe(era, doe) == civil_of_yoe(era, doe, year_of_era(doe))

\* the calendar date <<year, month, day>> of a day number
civil_from_days(z) ==
    civil_of_doe((z + 719468) \div 146097, (z + 719468) % 146097)

\* pd.to_datetime(text, errors='coerce') of a year-month-day text
to_datetime(raw) ==
    IF /\ raw[2] \in 1..12
       /\ raw[3] \in 1..days_in_month(raw[1], raw[2])
    THEN days_from_civil(raw[1], raw[2], raw[3])
    ELSE NaT

ymd_key(c) == c[1] * 10000 + c[2] * 100 + c[3]

\* int(ts.strftime('%Y%m%d'))
date_key_of(ts) == ymd_key(civil_from_days(ts))

\* Series.min() / Series.max(): NaT cells are skipped, NaT when none is left
col_min(col) ==
    LET S == { col[i] : i \in 1..Len(col) } \ {NaT}
    IN  IF S = {} THEN NaT ELSE CHOOSE x \in S : \A y \in S : x <= y

col_max(col) ==
    LET S == { col[i] : i \in 1..Len(col) } \ {NaT}
    IN  IF S = {} THEN NaT ELSE CHOOSE x \in S : \A y \in S : x >= y

\* the builtin min(a, b): b only if b < a, and every comparison with NaT is False
py_min(a, b) == IF a # NaT /\ b # NaT /\ b < a THEN b ELSE a

\* the builtin max(a, b): b only if b > a
py_max(a, b) == IF a # NaT /\ b # NaT /\ b > a THEN b ELSE a

\* pd.date_range(start, end): one timestamp per day, both ends included
date_range(start, end) == [i \in 1..(end - start + 1) |-> start + i - 1]

\* dim_date (its ISO week column is left out)
build_dim_date(rng) ==
    [i \in 1..Len(rng) |->
        [date     |-> rng[i],
         date_key |-> date_key_of(rng[i]),
         year     |-> civil_from_days(rng[i])[1],
         month    |-> civil_from_days(rng[i])[2],
         day      |-> civil_from_days(rng[i])[3],
         quarter  |-> (civil_from_days(rng[i])[2] - 1) \div 3 + 1]]

(* ------------------------------ columns -------------------------------- *)
column(df, c) == [i \in 1..Len(df) |-> df[i][c]]

\* Series.dropna().unique(): the non-null values in order of first appearance
RECURSIVE unique(_)
unique(col) ==
    IF Len(col) = 0 THEN <<>>
    ELSE LET init == unique(SubSeq(col, 1, Len(col) - 1))
             x    == col[Len(col)]
         IN  IF isna(x) \/ \E i \in 1..Len(init) : init[i] = x
             THEN init ELSE Append(init, x)

values(col) == { col[i] : i \in 1..Len(col) }

\* list(set(xs)): the distinct values in an order the language does not define
list_of_set(S) ==
    { s \in [1..Cardinality(S) -> S] : \A x \in S : \E i \in DOMAIN s : s[i] = x }

\* a faulty variant: the keys numbered range(len(dim)), from 0
with_ids_from_zero(names) == [i \in 1..Len(names) |-> [name |-> names[i], id |-> i - 1]]

\* dim['..._id'] = range(1, len(dim) + 1)
with_ids(names) == [i \in 1..Len(names) |-> [name |-> names[i], id |-> i]]

(* ----------------------------- transform ------------------------------- *)
parse_dates(df) == [i \in 1..Len(df) |-> [df[i] EXCEPT !.date = to_datetime(@)]]

tag(df, col, v) == [i \in 1..Len(df) |-> [c \in DOMAIN df[i] \cup {col} |->
                                            IF c = col THEN v ELSE df[i][c]]]

\* df[id_col] = df[name_col].apply(lambda x: map_name_to_id(x, dim_df, ...))
add_id(df, name_col, dim_df, id_col) ==
    [i \in 1..Len(df) |-> [c \in DOMAIN df[i] \cup {id_col} |->
        IF c = id_col THEN map_name_to_id(df[i][name_col], dim_df).id
        ELSE df[i][c]]]

\* some call of the apply raises
apply_raises(df, name_col, dim_df) ==
    \E i \in 1..Len(df) : map_name_to_id(df[i][name_col], dim_df).raised

\* wyscout_matches[['match', 'date', 'team_id', 'competition_id']].drop_duplicates()
RECURSIVE drop_duplicates(_)
drop_duplicates(rows) ==
    IF Len(rows) = 0 THEN <<>>
    ELSE LET init == drop_duplicates(SubSeq(rows, 1, Len(rows) - 1))
             x    == rows[Len(rows)]
         IN  IF \E i \in 1..Len(init) : init[i] = x THEN init ELSE Append(init, x)

match_columns(df) ==
    [i \in 1..Len(df) |->
        [match_id       |-> df[i].match,
         date           |-> df[i].date,
         team_id        |-> df[i].team_id,
         competition_id |-> df[i].competition_id]]

add_date_key(df) ==
    [i \in 1..Len(df) |-> [c \in DOMAIN df[i] \cup {"date_key"} |->
        IF c = "date_key" THEN date_key_of(df[i].date) ELSE df[i][c]]]

Raised(error) ==
    [status |-> "raised", error |-> error, date_min |-> NaT, date_max |-> NaT,
     dim_date |-> <<>>, dim_team |-> <<>>, dim_player |-> <<>>,
     dim_competition |-> <<>>, dim_match |-> <<>>, fact_player_gps |-> <<>>,
     fact_player_wyscout |-> <<>>, fact_wyscout_match |-> <<>>]

\* the names list(set(...)) is applied to, lines 63-65 and 69-71
team_set(gm, gt, wo, wg) ==
    values(unique(column(gm \o gt, "team_name")))
        \cup values(unique(column(wo, "team_name") \o column(wg, "team_name")))

player_set(gm, gt, wo, wg) ==
    values(unique(column(gm \o gt, "name")))
        \cup values(unique(column(wo, "player") \o column(wg, "player")))

\* lines 78-116: the key columns, dim_match and the tables returned
assemble(gps, wo, wg, wm, date_min, date_max, dim_team, dim_player, dim_competition) ==
    IF date_min = NaT \/ date_max = NaT
    THEN Raised("ValueError: date_range")
    ELSE IF \/ apply_raises(gps, "team_name", dim_team)
            \/ apply_raises(gps, "name", dim_player)
            \/ apply_raises(wo, "team_name", dim_team)
            \/ apply_raises(wg, "team_name", dim_team)
            \/ apply_raises(wo, "player", dim_player)
            \/ apply_raises(wg, "player", dim_player)
            \/ apply_raises(wm, "team_name", dim_team)
            \/ apply_raises(wm, "competition", dim_competition)
    THEN Raised("TypeError: fuzzy_match")
    ELSE IF \E i \in 1..Len(wm) : wm[i].date = NaT
    THEN Raised("ValueError: astype")
    ELSE [status |-> "ok", error |-> "",
          date_min |-> date_min, date_max |-> date_max,
          dim_date |-> build_dim_date(date_range(date_min, date_max)),
          dim_team |-> dim_team,
          dim_player |-> dim_player,
          dim_competition |-> dim_competition,
          dim_match |->
              add_date_key(drop_duplicates(match_columns(
                  add_id(add_id(wm, "team_name", dim_team, "team_id"),
                         "competition", dim_competition, "competition_id")))),
          fact_player_gps |->
              add_id(add_id(gps, "team_name", dim_team, "team_id"),
                     "name", dim_player, "player_id"),
          fact_player_wyscout |->
              tag(add_id(add_id(wg, "team_name", dim_team, "team_id"),
                         "player", dim_player, "player_id"),
                  "player_type", "goalkeeper")
              \o tag(add_id(add_id(wo, "team_name", dim_team, "team_id"),
                            "player", dim_player, "player_id"),
                     "player_type", "outfield"),
          fact_wyscout_match |->
              add_id(add_id(wm, "team_name", dim_team, "team_id"),
                     "competition", dim_competition, "competition_id")]

\* lines 50-76: the date range and the three name dimensions
build_dimensions(gps, wo, wg, wm, all_teams, all_players) ==
    assemble(gps, wo, wg, wm,
             py_min(col_min(column(gps, "date")), col_min(column(wm, "date"))),
             py_max(col_max(column(gps, "date")), col_max(column(wm, "date"))),
             with_ids(all_teams), with_ids(all_players),
             with_ids(unique(column(wm, "competition"))))

\* transform_data; all_teams and all_players are the two lists list(set(...))
\* came out as
transform_data(gm, gt, wo, wg, wm, all_teams, all_players) ==
    build_dimensions(
        parse_dates(tag(gm, "session_type", "match")
                    \o tag(gt, "session_type", "training")),
        parse_dates(wo), parse_dates(wg), parse_dates(wm),
        all_teams, all_players)

(* ------------------------------- load ---------------------------------- *)
\* the order of the to_sql calls of load_data_to_db
LoadOrder ==
    <<"dim_date", "dim_team", "dim_player", "dim_competition", "dim_match",
      "fact_player_gps", "fact_player_wyscout", "fact_wyscout_match">>

TableNames == { LoadOrder[i] : i \in 1..Len(LoadOrder) }

\* default_args['retries']
retries == 1

(* ----------------------------- the pipeline ---------------------------- *)
NoRun == [status |-> "none"]

\* a task that raised fails the run, unless Airflow still has a retry for it
RunEnded ==
    \/ pc = "loaded"
    \/ pc = "failed" /\ (runner = "standalone" \/ tries >= retries)

\* transform_data on the extracted tables (run_etl_standalone step 2 / the
\* transform task)
TransformData ==
    /\ pc = "start"
    /\ \E all_teams \in list_of_set(team_set(gps_match, gps_training,
                                             wyscout_outfield, wyscout_goalkeeper)),
          all_players \in list_of_set(player_set(gps_match, gps_training,
                                                 wyscout_outfield, wyscout_goalkeeper)) :
          out' = transform_data(gps_match, gps_training, wyscout_outfield,
                                wyscout_goalkeeper, wyscout_matches,
                                all_teams, all_players)
    /\ pc' = IF out'.status = "ok" THEN "transformed" ELSE "failed"
    /\ UNCHANGED <<tables, prev, db, k, runner, tries, query, dim, result, rpc>>

\* a second run on the same input tables
TransformDataAgain ==
    /\ pc = "transformed"
    /\ prev = NoRun
    /\ prev' = out
    /\ \E all_teams \in list_of_set(team_set(gps_match, gps_training,
                                             wyscout_outfield, wyscout_goalkeeper)),
          all_players \in list_of_set(player_set(gps_match, gps_training,
                                                 wyscout_outfield, wyscout_goalkeeper)) :
          out' = transform_data(gps_match, gps_training, wyscout_outfield,
                                wyscout_goalkeeper, wyscout_matches,
                                all_teams, all_players)
    /\ UNCHANGED <<tables, pc, db, k, runner, tries, query, dim, result, rpc>>

\* one to_sql(..., if_exists='replace') of load_data_to_db succeeds
ToSql ==
    /\ pc = "transformed"
    /\ k < Len(LoadOrder)
    /\ db' = [db EXCEPT ![LoadOrder[k + 1]] = "replaced"]
    /\ k' = k + 1
    /\ pc' = IF k + 1 = Len(LoadOrder) THEN "loaded" ELSE pc
    /\ UNCHANGED <<tables, out, prev, runner, tries, query, dim, result, rpc>>

\* one to_sql raises (the database refuses the write): load_data_to_db ends
\* there; the table it was writing is taken to keep its old content, the
\* tables already written stay written
ToSqlRaises ==
    /\ pc = "transformed"
    /\ k < Len(LoadOrder)
    /\ pc' = "failed"
    /\ UNCHANGED <<tables, out, prev, db, k, runner, tries, query, dim, result, rpc>>

\* Airflow runs the failed task once more ('retries': 1)
RetryTask ==
    /\ pc = "failed"
    /\ runner = "airflow"
    /\ tries < retries
    /\ tries' = tries + 1
    /\ pc' = IF out.status = "ok" THEN "transformed" ELSE "start"
    /\ k' = 0
    /\ UNCHANGED <<tables, out, prev, db, runner, query, dim, result, rpc>>

(* ------------------------------ inputs --------------------------------- *)
\* team names "a", "a b"; player names "abc", "abcd"; competitions "a", "d"
TeamCells == { <<1>>, <<1, 0, 2>>, NaN }

PlayerCells == { <<1, 2, 3>>, <<1, 2, 3, 4>>, NaN }

CompetitionCells == { <<1>>, <<4>>, NaN }

\* 2023-12-31, 2024-01-02, 2024-01-03 and 2023-02-29, which is no date
DateCells == { <<2023, 12, 31>>, <<2024, 1, 2>>, <<2024, 1, 3>>, <<2023, 2, 29>> }

ADate == <<2024, 1, 2>>

GpsRows(names, teams, dates) ==
    [name : names, team_name : teams, date : dates]

WyscoutRows(names, teams, dates) ==
    [player : names, team_name : teams, date : dates]

MatchRows(ids, teams, comps, dates) ==
    [match : ids, team_name : teams, competition : comps, date : dates]

\* how many rows each of the five tables holds, n rows at most in all
RowCounts(n) ==
    { l \in [1..5 -> 0..n] : l[1] + l[2] + l[3] + l[4] + l[5] <= n }

InitTables(n, G, W, M) ==
    \E l \in RowCounts(n) :
        /\ gps_match \in [1..l[1] -> G]
        /\ gps_training \in [1..l[2] -> G]
        /\ wyscout_outfield \in [1..l[3] -> W]
        /\ wyscout_goalkeeper \in [1..l[4] -> W]
        /\ wyscout_matches \in [1..l[5] -> M]

IdleResolver ==
    /\ rpc = "idle"
    /\ query = NaN
    /\ dim = <<>>
    /\ result = [raised |-> FALSE, id |-> None]

InitRun ==
    /\ pc = "start"
    /\ out = NoRun
    /\ prev = NoRun
    /\ db = [t \in TableNames |-> "old"]
    /\ k = 0
    /\ tries = 0

\* the name columns vary, every date is the same good date
InitNames ==
    /\ InitTables(MaxRows, GpsRows(PlayerCells, TeamCells, {ADate}),
                  WyscoutRows(PlayerCells, TeamCells, {ADate}),
                  MatchRows({1}, TeamCells, CompetitionCells, {ADate}))
    /\ InitRun
    /\ runner = "standalone"
    /\ IdleResolver

\* the date columns vary, every name is missing
InitDates ==
    /\ InitTables(MaxDateRows, GpsRows({NaN}, {NaN}, DateCells),
                  WyscoutRows({NaN}, {NaN}, DateCells),
                  MatchRows({1, 2}, {NaN}, {NaN}, DateCells))
    /\ InitRun
    /\ runner = "standalone"
    /\ IdleResolver

InitLoad ==
    /\ InitTables(MaxLoadRows, GpsRows(PlayerCells, TeamCells, {ADate}),
                  WyscoutRows(PlayerCells, TeamCells, {ADate}),
                  MatchRows({1}, TeamCells, CompetitionCells, {ADate}))
    /\ InitRun
    /\ runner \in {"standalone", "airflow"}
    /\ IdleResolver

NextTransform == TransformData

SpecNames == InitNames /\ [][NextTransform]_vars

SpecDates == InitDates /\ [][NextTransform]_vars

NextTwoRuns == TransformData \/ TransformDataAgain

SpecTwoRuns == InitNames /\ [][NextTwoRuns]_vars

Next == TransformData \/ ToSql \/ ToSqlRaises \/ RetryTask

Spec == InitLoad /\ [][Next]_vars

(* ---------------------- resolver as a state machine ------------------- *)
\* ordered lists of pairwise distinct names, of at most n names
DistinctSeqs(S, n) ==
    { s \in UNION { [1..len -> S] : len \in 0..n } :
        \A i, j \in 1..Len(s) : i # j => s[i] # s[j] }

NotResolved == [raised |-> FALSE, id |-> -1]

InitResolver ==
    /\ rpc = "start"
    /\ query \in Names \cup {NaN}
    /\ dim \in { with_ids(s) : s \in DistinctSeqs(Names, MaxCand) }
    /\ result = NotResolved
    /\ gps_match = <<>>
    /\ gps_training = <<>>
    /\ wyscout_outfield = <<>>
    /\ wyscout_goalkeeper = <<>>
    /\ wyscout_matches = <<>>
    /\ InitRun
    /\ runner = "standalone"

MapNameToId ==
    /\ rpc = "start"
    /\ result' = map_name_to_id(query, dim)
    /\ rpc' = "done"
    /\ UNCHANGED <<query, dim, tables, pc, out, prev, db, k, runner, tries>>

NextResolver == MapNameToId

SpecResolver == InitResolver /\ [][NextResolver]_vars

(* ------------------------- claims: the resolver ----------------------- *)
ScoreAt(i) == token_set_ratio(query, dim[i].name, Zero)

\* the first row, in list order, among those with the maximum score
RefWinner ==
    CHOOSE i \in 1..Len(dim) :
        /\ \A j \in 1..Len(dim) : ScoreGE(ScoreAt(i), ScoreAt(j))
        /\ \A j \in 1..(i - 1) : ScoreGT(ScoreAt(i), ScoreAt(j))

RefResult ==
    IF isna(query) THEN [raised |-> FALSE, id |-> None]
    ELSE IF 100 * ScoreAt(RefWinner)[1] >= threshold * ScoreAt(RefWinner)[2]
         THEN [raised |-> FALSE, id |-> dim[RefWinner].id]
    ELSE [raised |-> FALSE, id |-> None]

\* C4: against a non-empty candidate list map_name_to_id returns null for a
\* null query, and otherwise the key of the first candidate in list order
\* among those with the maximum score if that score is >= the threshold,
\* and null if it is not.
C4_ResolverIsFirstMaxAboveThreshold ==
    (rpc = "done" /\ Len(dim) > 0) => result = RefResult

\* a tie at the maximum, at or above the threshold, won by the earlier row
C4_Witness ==
    /\ rpc = "done"
    /\ ~isna(query)
    /\ \E i, j \in 1..Len(dim) :
          /\ i < j
          /\ ScoreEQ(ScoreAt(i), ScoreAt(j))
          /\ \A h \in 1..Len(dim) : ScoreGE(ScoreAt(i), ScoreAt(h))
          /\ ~ScoreEQ(ScoreAt(i), Hundred)
          /\ result = [raised |-> FALSE, id |-> dim[i].id]

\* C2: resolving the name of a row of a dimension table against that table
\* returns that row's own key, whatever other names the table holds.
C2_SelfMatchReturnsOwnKey ==
    rpc = "done" =>
        \A i \in 1..Len(dim) :
            dim[i].name = query => result = [raised |-> FALSE, id |-> dim[i].id]

(* ---------------------- claims: the name dimensions -------------------- *)
Ids(dim_df) == { dim_df[i].id : i \in 1..Len(dim_df) }

DenseKeys(dim_df) ==
    /\ Ids(dim_df) = 1..Len(dim_df)
    /\ \A i, j \in 1..Len(dim_df) : i # j => dim_df[i].id # dim_df[j].id

\* C1: after transform_data the surrogate keys of dim_team, dim_player and
\* dim_competition are pairwise distinct and are exactly 1..N, N the number
\* of rows of the table (N = 0 included).
C1_SurrogateKeysDense ==
    out.status = "ok" =>
        /\ DenseKeys(out.dim_team)
        /\ DenseKeys(out.dim_player)
        /\ DenseKeys(out.dim_competition)

\* two teams, at least one player and no competition at all
C1_Witness ==
    /\ pc = "transformed"
    /\ Len(out.dim_team) = 2
    /\ Len(out.dim_player) >= 1
    /\ Len(out.dim_competition) = 0

NonNull(col) == values(col) \ {NaN}

Canonical(dim_df) == { dim_df[i].name : i \in 1..Len(dim_df) }

\* C3: the canonical names of each dimension are the distinct non-null names
\* of the relevant column of every source table; every non-null team_name of
\* wyscout_matches, of the GPS tables and of the player-event tables has a
\* row in dim_team.
C3_DimensionHoldsEverySourceName ==
    out.status = "ok" =>
        /\ Canonical(out.dim_team) =
               NonNull(column(gps_match, "team_name"))
               \cup NonNull(column(gps_training, "team_name"))
               \cup NonNull(column(wyscout_outfield, "team_name"))
               \cup NonNull(column(wyscout_goalkeeper, "team_name"))
               \cup NonNull(column(wyscout_matches, "team_name"))
        /\ Canonical(out.dim_player) =
               NonNull(column(gps_match, "name"))
               \cup NonNull(column(gps_training, "name"))
               \cup NonNull(column(wyscout_outfield, "player"))
               \cup NonNull(column(wyscout_goalkeeper, "player"))
        /\ Canonical(out.dim_competition) =
               NonNull(column(wyscout_matches, "competition"))

\* C5: resolving a non-null name against a dimension with no row returns
\* null and does not raise: with no team name in the GPS and player-event
\* tables and a team name in wyscout_matches, transform_data completes with
\* a null team_id in that row. (Stated for inputs whose dates give a range.)
C5_EmptyDimensionResolvesToNull ==
    ( /\ pc # "start"
      /\ Len(gps_match) + Len(gps_training) > 0
      /\ team_set(gps_match, gps_training, wyscout_outfield, wyscout_goalkeeper) = {}
      /\ NonNull(column(wyscout_matches, "team_name")) # {} )
    => /\ out.status = "ok"
       /\ \A i \in 1..Len(out.fact_wyscout_match) :
              out.fact_wyscout_match[i].team_id = None

KeyOf(dim_df, name) ==
    { dim_df[i].id : i \in { j \in 1..Len(dim_df) : dim_df[j].name = name } }

SameKeys(d1, d2) ==
    \A name \in Canonical(d1) \cup Canonical(d2) : KeyOf(d1, name) = KeyOf(d2, name)

\* C10: two runs of transform_data on the same input tables give every
\* canonical team, player and competition the same surrogate key, and every
\* fact row the same team_id, player_id and competition_id.
C10_KeysSameAcrossRuns ==
    prev # NoRun =>
        /\ SameKeys(out.dim_team, prev.dim_team)
        /\ SameKeys(out.dim_player, prev.dim_player)
        /\ SameKeys(out.dim_competition, prev.dim_competition)
        /\ out.fact_player_gps = prev.fact_player_gps
        /\ out.fact_player_wyscout = prev.fact_player_wyscout
        /\ out.fact_wyscout_match = prev.fact_wyscout_match

(* ------------------------------ claims: load --------------------------- *)
\* C6: a run is all-or-nothing: when it has ended, either all eight output
\* tables were replaced by it or none was.
C6_RunAllOrNothing ==
    RunEnded =>
        \/ \A t \in TableNames : db[t] = "replaced"
        \/ \A t \in TableNames : db[t] = "old"

(* ------------------------------ claims: dates -------------------------- *)
SourceDates ==
    values(column(parse_dates(gps_match), "date"))
    \cup values(column(parse_dates(gps_training), "date"))
    \cup values(column(parse_dates(wyscout_outfield), "date"))
    \cup values(column(parse_dates(wyscout_goalkeeper), "date"))
    \cup values(column(parse_dates(wyscout_matches), "date"))

ParsedDates == SourceDates \ {NaT}

GpsDates ==
    values(column(parse_dates(gps_match), "date"))
    \cup values(column(parse_dates(gps_training), "date"))

\* C7: a source row whose date does not parse never aborts the run:
\* transform_data completes, and a dim_match row without a date has a null
\* date_key. (Stated for inputs in which some GPS date parses, so that no
\* abort can come from a GPS table without dates.)
C7_UnparseableDateDoesNotAbort ==
    (pc # "start" /\ NaT \in SourceDates /\ GpsDates \ {NaT} # {}) =>
        /\ out.status = "ok"
        /\ \A i \in 1..Len(out.dim_match) :
              out.dim_match[i].date = NaT => out.dim_match[i].date_key = None

InDimDate(ts) ==
    /\ out.date_min <= ts
    /\ ts <= out.date_max
    /\ \E i \in 1..Len(out.dim_date) : out.dim_date[i].date = ts

DatesOf(df) == values(column(df, "date")) \ {NaT}

\* C8: every row of fact_player_gps, fact_player_wyscout, fact_wyscout_match
\* and dim_match whose date parsed has its date within [date_min, date_max],
\* and dim_date has a row for it.
C8_FactDatesWithinDimDate ==
    out.status = "ok" =>
        \A ts \in DatesOf(out.fact_player_gps) \cup DatesOf(out.fact_player_wyscout)
                  \cup DatesOf(out.fact_wyscout_match) \cup DatesOf(out.dim_match) :
            InDimDate(ts)

MinOf(S) == CHOOSE x \in S : \A y \in S : x <= y

MaxOf(S) == CHOOSE x \in S : \A y \in S : x >= y

\* C9: whenever at least one source date parses, dim_date has exactly one row
\* per day from the least to the greatest of all parsed dates: that many
\* rows, consecutive rows one day apart, each date_key the YYYYMMDD of its
\* date.
C9_DimDateIsCalendarOfAllDates ==
    (pc # "start" /\ ParsedDates # {}) =>
        /\ out.status = "ok"
        /\ Len(out.dim_date) = MaxOf(ParsedDates) - MinOf(ParsedDates) + 1
        /\ out.dim_date[1].date = MinOf(ParsedDates)
        /\ \A i \in 1..(Len(out.dim_date) - 1) :
              /\ out.dim_date[i + 1].date = out.dim_date[i].date + 1
              /\ out.dim_date[i + 1].date_key > out.dim_date[i].date_key
        /\ \A i \in 1..Len(out.dim_date) :
              out.dim_date[i].date_key =
                  out.dim_date[i].year * 10000 + out.dim_date[i].month * 100
                      + out.dim_date[i].day

====
